---- MODULE Spec2Model ----
(***************************************************************************)
(* A model of the trie of src/src/trie/__init__.py: Trie and MutableTrie   *)
(* keyed by tuples of integers, as in src/tests/test_trie.py.              *)
(*                                                                         *)
(* The nested dicts of `children` are kept flat.  A branch level is named  *)
(* by the path of elements leading to it (<<>> is the top level);          *)
(* children.levels is the set of levels that exist, and children.vals maps *)
(* a level to the value stored under its terminal-marker entry.  The       *)
(* entries of the level at path p are the elements e with Append(p, e) in  *)
(* children.levels, and the terminal marker when p is in DOMAIN            *)
(* children.vals.  Keys never contain the terminal marker (line 29-30 of   *)
(* the source), so an entry is never both.                                 *)
(*                                                                         *)
(* Python values are tokens: "a", "0" (the integer zero, falsy), "None",   *)
(* "d" (a default), "True" and "False".  A Python object that may be an    *)
(* element or a tuple is a record with a kind.                             *)
(***************************************************************************)
EXTENDS Integers, Sequences, FiniteSets, TLC

\* The terminal marker of the tests' tries.
TM == 0

\* Bounds of the model.
MaxKeyLen == 2
MaxItems == 2
\* The most branch levels below the top level the trie is let grow to.
MaxLevels == 3

Elems == {1, 2}
Values == {"a", "0", "None"}
Defaults == {"d", "None"}

SeqsUpTo(S, n) == UNION {[1..k -> S] : k \in 0..n}
Keys == SeqsUpTo(Elems, MaxKeyLen) \ {<<>>}
ItemSeqs == SeqsUpTo(Keys \X Values, MaxItems)
\* Orders in which a dict may enumerate its entries.
Orders == {o \in [1..(Cardinality(Elems) + 1) -> Elems \cup {TM}] :
             \A i, j \in DOMAIN o : i # j => o[i] # o[j]}

VARIABLES
  mutable,   \* TRUE for a MutableTrie, FALSE for a Trie
  children,  \* the branch structure: [levels, vals]
  written,   \* a __setitem__ or __delitem__ ran since construction
  last       \* the last call: its name, arguments and outcome

vars == <<mutable, children, written, last>>

----------------------------------------------------------------------------
\* Python objects

PyElem(e) == [kind |-> "elem", e |-> e, s |-> <<>>]
PySeq(s) == [kind |-> "seq", e |-> 0, s |-> s]
NoObj == [kind |-> "none", e |-> 0, s |-> <<>>]

\* bool(v)
Truthy(v) == v \notin {"0", "None", "False", ""}
PyBool(b) == IF b THEN "True" ELSE "False"

\* k + key of line 148: tuples concatenate, integers add, a tuple and an
\* integer raise TypeError.
PyAdd(k, key) ==
  IF k.kind = "seq" /\ key.kind = "seq" THEN PySeq(k.s \o key.s)
  ELSE IF k.kind = "elem" /\ key.kind = "elem" THEN PyElem(k.e + key.e)
  ELSE NoObj

----------------------------------------------------------------------------
\* The branch structure

\* make_children(): an empty auto-vivifying level.
MakeChildren == [levels |-> {<<>>}, vals |-> <<>>]

\* finalize(children): Trie casts every level to dict, MutableTrie leaves
\* the defaultdicts; what remains of it here is whether a missing element
\* is created on lookup.
AutoVivifying(m) == m

\* The entries of the level at path p (dict.keys()).
LevelKeys(ch, p) ==
  {e \in Elems : Append(p, e) \in ch.levels}
    \cup (IF p \in DOMAIN ch.vals THEN {TM} ELSE {})

\* A store that replaces the terminal entries instead of adding one.
StoreAtClobbering(ch, p, v) ==
  [ch EXCEPT !.vals = [q \in {p} |-> v]]

\* level[terminal_marker] = value
StoreAt(ch, p, v) ==
  [ch EXCEPT !.vals = [q \in (DOMAIN ch.vals) \cup {p} |->
                          IF q = p THEN v ELSE ch.vals[q]]]

\* A delete that leaves the entry in place.
RemoveAtKeeping(ch, p) == ch

\* del level[terminal_marker], the entry being there
RemoveAt(ch, p) ==
  [ch EXCEPT !.vals = [q \in (DOMAIN ch.vals) \ {p} |-> ch.vals[q]]]

\* The indexing of iter_key, element by element from the level at `path`:
\* a defaultdict creates the missing level, a dict raises KeyError(element).
RECURSIVE Walk(_, _, _, _)
Walk(lv, autoviv, path, rest) ==
  IF rest = <<>>
  THEN [err |-> "none", payload |-> NoObj, path |-> path, levels |-> lv]
  ELSE LET nxt == Append(path, Head(rest)) IN
       IF nxt \in lv THEN Walk(lv, autoviv, nxt, Tail(rest))
       ELSE IF autoviv THEN Walk(lv \cup {nxt}, autoviv, nxt, Tail(rest))
       ELSE [err |-> "KeyError", payload |-> PyElem(Head(rest)),
             path |-> path, levels |-> lv]

\* iter_key(children, key), children being the level at `base`.
IterKey(lv, autoviv, base, key) ==
  IF key.kind # "seq"
  THEN [err |-> "TypeError", payload |-> NoObj, path |-> base, levels |-> lv]
  ELSE IF key.s = <<>>
  THEN [err |-> "ValueError", payload |-> NoObj, path |-> base, levels |-> lv]
  ELSE Walk(lv, autoviv, base, key.s)

\* self._subtrie(key) of the trie whose children are the level at `base`.
Subtrie(ch, m, base, key) == IterKey(ch.levels, AutoVivifying(m), base, key)

\* from_items: fold the pairs into auto-vivifying levels.
RECURSIVE FoldItems(_, _)
FoldItems(ch, items) ==
  IF items = <<>> THEN ch
  ELSE LET level == IterKey(ch.levels, TRUE, <<>>, PySeq(Head(items)[1])) IN
       FoldItems(StoreAt([ch EXCEPT !.levels = level.levels],
                         level.path, Head(items)[2]),
                 Tail(items))

FromItems(items) == FoldItems(MakeChildren, items)

----------------------------------------------------------------------------
\* Outcomes of a call: what it raised or returned, and the branch structure
\* it left.

NoVal == "-"

Raise(err, payload, ch) ==
  [err |-> err, payload |-> payload, val |-> NoVal, view |-> <<>>,
   yielded |-> <<>>, ch |-> ch]

Return(val, ch) ==
  [err |-> "none", payload |-> NoObj, val |-> val, view |-> <<>>,
   yielded |-> <<>>, ch |-> ch]

\* Trie.get
Get(ch, m, key, default) ==
  LET sub == Subtrie(ch, m, <<>>, PySeq(key))
      ch2 == [ch EXCEPT !.levels = sub.levels]
  IN IF sub.err # "none" THEN Raise(sub.err, sub.payload, ch2)
     ELSE IF sub.path \in DOMAIN ch.vals THEN Return(ch.vals[sub.path], ch2)
     ELSE Return(default, ch2)

\* A handler that lets the inner KeyError through as it is.
ReraiseInner(r, key) == r

\* The handler of Trie.__getitem__: except KeyError: raise KeyError(key)
Reraise(r, key) ==
  IF r.err = "KeyError" THEN [r EXCEPT !.payload = PySeq(key)] ELSE r

\* Trie.__getitem__
TrieGetItem(ch, m, key) ==
  LET sub == Subtrie(ch, m, <<>>, PySeq(key))
      ch2 == [ch EXCEPT !.levels = sub.levels]
      inner == IF sub.err # "none" THEN Raise(sub.err, sub.payload, ch2)
               ELSE IF sub.path \in DOMAIN ch.vals
                    THEN Return(ch.vals[sub.path], ch2)
               ELSE Raise("KeyError", PyElem(TM), ch2)
  IN Reraise(inner, key)

\* MutableTrie.__getitem__
MutableGetItem(ch, m, key) ==
  LET sub == Subtrie(ch, m, <<>>, PySeq(key))
      ch2 == [ch EXCEPT !.levels = sub.levels]
      value == IF sub.path \in DOMAIN ch.vals THEN ch.vals[sub.path]
               ELSE "None"
  IN IF sub.err # "none" THEN Raise(sub.err, sub.payload, ch2)
     ELSE IF value = "None" THEN Raise("KeyError", PySeq(key), ch2)
     ELSE Return(value, ch2)

\* trie[key], by the class of the trie
GetItem(ch, m, key) ==
  IF m THEN MutableGetItem(ch, m, key) ELSE TrieGetItem(ch, m, key)

\* Trie.__contains__
Contains(ch, m, key) ==
  LET r == Get(ch, m, key, "False")
  IN IF r.err # "none" THEN r ELSE Return(PyBool(Truthy(r.val)), r.ch)

\* Trie.get_subtrie: the view is the level reached, named by its path.
GetSubtrie(ch, m, key) ==
  LET sub == Subtrie(ch, m, <<>>, PySeq(key))
      ch2 == [ch EXCEPT !.levels = sub.levels]
  IN IF sub.err # "none" THEN Raise(sub.err, sub.payload, ch2)
     ELSE [Return(NoVal, ch2) EXCEPT !.view = sub.path]

\* Trie.keys of the trie or view whose children are the level at `base`.
TrieKeys(ch, base) == LevelKeys(ch, base)

\* MutableTrie.__setitem__
SetItem(ch, m, key, value) ==
  LET level == IterKey(ch.levels, AutoVivifying(m), <<>>, PySeq(key))
      ch2 == [ch EXCEPT !.levels = level.levels]
  IN IF level.err # "none" THEN Raise(level.err, level.payload, ch2)
     ELSE Return("None", StoreAt(ch2, level.path, value))

\* MutableTrie.__delitem__: del on a level without the entry raises
\* KeyError(terminal_marker), a defaultdict included.
DelItem(ch, m, key) ==
  LET level == IterKey(ch.levels, AutoVivifying(m), <<>>, PySeq(key))
      ch2 == [ch EXCEPT !.levels = level.levels]
  IN IF level.err # "none" THEN Raise(level.err, level.payload, ch2)
     ELSE IF level.path \in DOMAIN ch.vals
          THEN Return("None", RemoveAt(ch2, level.path))
     ELSE Raise("KeyError", PyElem(TM), ch2)

----------------------------------------------------------------------------
\* Prefix enumeration.  The generators are run to their end: the outcome is
\* what they yielded, in order, and the exception that ended them, if any.

\* dict.items() of the level at path p, enumerated in the order `ord`.
LevelItems(ch, p, ord) == SelectSeq(ord, LAMBDA e : e \in LevelKeys(ch, p))

Yield(ys, r) == [r EXCEPT !.yielded = ys \o @]

\* Trie._prefixes(k) and the loop of its body over the entries left.
RECURSIVE PrefixesGen(_, _, _, _, _), PrefixesLoop(_, _, _, _, _, _)
PrefixesGen(ch, m, base, k, ord) ==
  LET sub == Subtrie(ch, m, base, k)
      ch2 == [ch EXCEPT !.levels = sub.levels]
  IN IF sub.err # "none" THEN Yield(<<k>>, Raise(sub.err, sub.payload, ch2))
     ELSE Yield(<<k>>, PrefixesLoop(ch2, m, base, k,
                                    LevelItems(ch2, sub.path, ord), ord))

PrefixesLoop(ch, m, base, k, entries, ord) ==
  IF entries = <<>> THEN Return(NoVal, ch)
  ELSE IF Head(entries) = TM
  THEN PrefixesLoop(ch, m, base, k, Tail(entries), ord)
  ELSE LET k2 == PyAdd(k, PyElem(Head(entries))) IN
       IF k2 = NoObj THEN Raise("TypeError", NoObj, ch)
       ELSE LET r == PrefixesGen(ch, m, base, k2, ord) IN
            IF r.err # "none" THEN r
            ELSE Yield(r.yielded,
                       PrefixesLoop(r.ch, m, base, k, Tail(entries), ord))

\* The loop of Trie.prefixes over the keys left.
RECURSIVE PrefixesOver(_, _, _, _, _)
PrefixesOver(ch, m, base, keys, ord) ==
  IF keys = <<>> THEN Return(NoVal, ch)
  ELSE LET r == PrefixesGen(ch, m, base, PyElem(Head(keys)), ord) IN
       IF r.err # "none" THEN r
       ELSE Yield(r.yielded, PrefixesOver(r.ch, m, base, Tail(keys), ord))

\* Trie.prefixes of the trie or view whose children are the level at `base`.
Prefixes(ch, m, base, ord) ==
  PrefixesOver(ch, m, base, LevelItems(ch, base, ord), ord)

\* Trie.prefixes_from: next(gen) drops the first item, which _prefixes
\* yields before it looks anything up.
PrefixesFrom(ch, m, key, ord) ==
  LET r == PrefixesGen(ch, m, <<>>, PySeq(key), ord)
  IN [r EXCEPT !.yielded = Tail(@)]

----------------------------------------------------------------------------
\* The state machine

Call(op, key, arg, r) ==
  [op |-> op, key |-> key, arg |-> arg, items |-> <<>>,
   err |-> r.err, payload |-> r.payload, val |-> r.val, view |-> r.view,
   yielded |-> r.yielded]

WithinBounds(ch) == Cardinality(ch.levels) <= MaxLevels + 1

\* Trie.from_items / MutableTrie.from_items (from_dict passes dct.items()).
Init ==
  \E items \in ItemSeqs, m \in BOOLEAN :
    /\ WithinBounds(FromItems(items))
    /\ mutable = m
    /\ children = FromItems(items)
    /\ written = FALSE
    /\ last = [Call("from_items", <<>>, NoVal, Return(NoVal, MakeChildren))
                 EXCEPT !.items = items]

Do(op, key, arg, r) ==
  /\ WithinBounds(r.ch)
  /\ children' = r.ch
  /\ last' = Call(op, key, arg, r)
  /\ UNCHANGED mutable

GetStep ==
  \E key \in Keys, default \in Defaults :
    /\ Do("get", key, default, Get(children, mutable, key, default))
    /\ UNCHANGED written

GetItemStep ==
  \E key \in Keys :
    /\ Do("getitem", key, NoVal, GetItem(children, mutable, key))
    /\ UNCHANGED written

ContainsStep ==
  \E key \in Keys :
    /\ Do("contains", key, NoVal, Contains(children, mutable, key))
    /\ UNCHANGED written

GetSubtrieStep ==
  \E key \in Keys :
    /\ Do("get_subtrie", key, NoVal, GetSubtrie(children, mutable, key))
    /\ UNCHANGED written

\* The handles at hand: the trie, and the view get_subtrie just returned.
Handles ==
  {<<>>} \cup (IF last.op = "get_subtrie" /\ last.err = "none"
              THEN {last.view} ELSE {})

\* prefixes() of the trie (base = <<>>) or of a view.
PrefixesStep ==
  \E base \in Handles, ord \in Orders :
    /\ Do("prefixes", base, NoVal, Prefixes(children, mutable, base, ord))
    /\ UNCHANGED written

PrefixesFromStep ==
  \E key \in Keys, ord \in Orders :
    /\ Do("prefixes_from", key, NoVal,
          PrefixesFrom(children, mutable, key, ord))
    /\ UNCHANGED written

SetItemStep ==
  \E key \in Keys, value \in Values :
    /\ mutable
    /\ Do("setitem", key, value, SetItem(children, mutable, key, value))
    /\ written' = TRUE

DelItemStep ==
  \E key \in Keys :
    /\ mutable
    /\ Do("delitem", key, NoVal, DelItem(children, mutable, key))
    /\ written' = TRUE

Next ==
  \/ GetStep
  \/ GetItemStep
  \/ ContainsStep
  \/ GetSubtrieStep
  \/ PrefixesStep
  \/ PrefixesFromStep
  \/ SetItemStep
  \/ DelItemStep

Spec == Init /\ [][Next]_vars

----------------------------------------------------------------------------
\* What the claims speak of

\* The keys stored in the trie: the levels holding a terminal-marker entry.
StoredKeys == DOMAIN children.vals

IsPrefix(p, k) == Len(p) <= Len(k) /\ SubSeq(k, 1, Len(p)) = p

\* The value of the last pair of `items` whose key is k.
LastValue(items, k) ==
  items[CHOOSE i \in DOMAIN items :
          /\ items[i][1] = k
          /\ \A j \in DOMAIN items : j > i => items[j][1] # k][2]

\* C1: get(key, default) never fails; it returns the stored value when the
\* key is stored and default otherwise, on a Trie and a MutableTrie alike.
C1_GetNeverFails ==
  last.op = "get" =>
    /\ last.err = "none"
    /\ last.val = (IF last.key \in StoredKeys THEN children.vals[last.key]
                   ELSE last.arg)

\* C2: on a MutableTrie no read (get, strict lookup, contains, get_subtrie,
\* prefixes_from) changes the branch structure.
C2_ReadsLeaveStructure ==
  [][(mutable /\ last'.op \in {"get", "getitem", "contains", "get_subtrie",
                               "prefixes_from"})
       => children' = children]_vars

\* C3: right after from_items, strict lookup and get return, for every key
\* of the pairs, the value of the last pair with that key.
C3_RoundTrip ==
  last.op = "from_items" =>
    \A i \in DOMAIN last.items :
      LET k == last.items[i][1]
          v == LastValue(last.items, k)
      IN /\ GetItem(children, mutable, k).err = "none"
         /\ GetItem(children, mutable, k).val = v
         /\ \A d \in Defaults :
              /\ Get(children, mutable, k, d).err = "none"
              /\ Get(children, mutable, k, d).val = v

\* C4: strict lookup of a key that is not stored raises KeyError carrying
\* the whole key, on a Trie and a MutableTrie alike.
C4_NotFoundCarriesKey ==
  (last.op = "getitem" /\ last.key \notin StoredKeys) =>
    /\ last.err = "KeyError"
    /\ last.payload = PySeq(last.key)

\* C4's case: a Trie, an element of the key missing on the way.
C4_Witness ==
  /\ last.op = "getitem"
  /\ ~mutable
  /\ last.key \notin children.levels
  /\ last.err = "KeyError"
  /\ StoredKeys # {}

\* C5: on a MutableTrie set(key, value) does not fail, get(key, default)
\* then returns value, and get of every other key returns what it did before.
C5_SetThenGet ==
  [][(mutable /\ last'.op = "setitem") =>
       /\ last'.err = "none"
       /\ \A d \in Defaults :
            /\ Get(children', mutable, last'.key, d).err = "none"
            /\ Get(children', mutable, last'.key, d).val = last'.arg
            /\ \A k \in Keys \ {last'.key} :
                 /\ Get(children', mutable, k, d).err
                      = Get(children, mutable, k, d).err
                 /\ Get(children', mutable, k, d).val
                      = Get(children, mutable, k, d).val]_vars

\* C5's case: a set that overwrote nothing else, another key being stored.
C5_Witness ==
  /\ last.op = "setitem"
  /\ last.err = "none"
  /\ \E k \in StoredKeys : k # last.key /\ IsPrefix(k, last.key)

\* k is absent from a MutableTrie: get returns the default and delete raises
\* KeyError.
Absent(ch, k) ==
  /\ DelItem(ch, TRUE, k).err = "KeyError"
  /\ \A d \in Defaults :
       LET g == Get(ch, TRUE, k, d) IN g.err = "none" /\ g.val = d

\* C6: on a MutableTrie a delete of a stored key leaves the key absent, the
\* key stays absent until it is set again, a delete of an absent key raises
\* KeyError, and a delete removes no level.
C6_DeleteThenAbsent ==
  [][mutable =>
       /\ \A k \in Keys :
            /\ (last'.op = "delitem" /\ last'.key = k /\ last'.err = "none")
                 => Absent(children', k)
            /\ (/\ children' # children
                /\ ~(last'.op = "setitem" /\ last'.key = k)
                /\ Absent(children, k))
                 => Absent(children', k)
            /\ (last'.op = "delitem" /\ last'.key = k /\ Absent(children, k))
                 => last'.err = "KeyError"
       /\ last'.op = "delitem" => children.levels \subseteq children'.levels
    ]_vars

\* C6's case: a stored key was deleted and its emptied level is still there.
C6_Witness ==
  /\ last.op = "delitem"
  /\ last.err = "none"
  /\ last.key \in children.levels
  /\ LevelKeys(children, last.key) = {}

\* C7: strict lookup on a MutableTrie returns the value of every stored key,
\* whatever the value.
C7_StrictLookupReturnsStored ==
  (mutable /\ last.op = "getitem" /\ last.key \in StoredKeys) =>
    /\ last.err = "none"
    /\ last.val = children.vals[last.key]

\* The non-empty prefixes of the keys stored beneath the level at `base`,
\* as tuples relative to it.
PrefixesBeneath(base) ==
  {PySeq(SubSeq(k, Len(base) + 1, j)) :
     <<k, j>> \in {kj \in StoredKeys \X (1..MaxKeyLen) :
                     /\ IsPrefix(base, kj[1])
                     /\ Len(base) < kj[2]
                     /\ kj[2] <= Len(kj[1])}}

\* C8: prefixes() of a trie or view ends without error and yields exactly
\* the non-empty prefixes of the keys stored beneath it, each once, as tuples.
C8_PrefixesExact ==
  last.op = "prefixes" =>
    /\ last.err = "none"
    /\ {last.yielded[i] : i \in DOMAIN last.yielded} = PrefixesBeneath(last.key)
    /\ Len(last.yielded) = Cardinality(PrefixesBeneath(last.key))

\* C9: for a trie as constructed (nothing set or deleted since), keys() is
\* the set of first elements of the stored keys, and get_subtrie(p) of a
\* prefix p of a stored key is a view whose keys() are the elements that
\* extend p to a prefix of a stored key, and the terminal marker exactly
\* when p is stored.
C9_KeysOfTrieAndViews ==
  ~written =>
    /\ TrieKeys(children, <<>>) = {k[1] : k \in StoredKeys}
    /\ \A p \in Keys :
         (\E k \in StoredKeys : IsPrefix(p, k)) =>
           LET r == GetSubtrie(children, mutable, p) IN
             /\ r.err = "none"
             /\ TrieKeys(children, r.view)
                  = {e \in Elems :
                       \E k \in StoredKeys : IsPrefix(Append(p, e), k)}
                    \cup (IF p \in StoredKeys THEN {TM} ELSE {})

\* C10: contains(key) returns a boolean, true exactly when the key is stored
\* with a truthy value.
C10_ContainsIffTruthy ==
  last.op = "contains" =>
    /\ last.err = "none"
    /\ last.val = PyBool(/\ last.key \in StoredKeys
                         /\ Truthy(children.vals[last.key]))

====
